---- MODULE Spec2Model ----
(***************************************************************************)
(* State-machine model of src/src/ik.rs: the 2D FABRIK-style inverse       *)
(* kinematics solver (IKConstraint, map_new_ik, solve_ik) running inside   *)
(* the PostUpdate schedule after transform propagation.                    *)
(*                                                                         *)
(* Numbers.  f32 values are modelled in fixed point:                       *)
(*   - lengths and positions in units of 1/PosScale,                       *)
(*   - unit vectors (and angles, which are kept as the unit vector         *)
(*     (cos a, sin a)) in units of 1/DirScale,                             *)
(*   - a NaN vector is the record NaNV (both components NaN: every NaN of  *)
(*     the solver comes from normalising a zero vector and spreads to      *)
(*     both components).                                                   *)
(* Joint-constraint limits are kept in whole degrees and looked up in a    *)
(* cosine/sine table.                                                      *)
(***************************************************************************)
EXTENDS Integers, Sequences, FiniteSets, TLC

\* ---------------------------------------------------------------------
\* Fixed-point representation of f32
\* ---------------------------------------------------------------------
PosScale == 10 * 10
DirScale == 100 * 100
\* extra precision kept while taking the square root of a small number
SqrtGuard(n) == IF n < 2147483647 \div 64 THEN 8 ELSE 1

Vec(x, y) == [x |-> x, y |-> y, nan |-> FALSE]
NaNV == [x |-> 0, y |-> 0, nan |-> TRUE]
\* NaN as a scalar distance (a distance is never negative)
NaNLen == 0 - 1

IsZero(v) == ~v.nan /\ v.x = 0 /\ v.y = 0

\* round-to-nearest division, b > 0
RoundDiv(a, b) == (2 * a + b) \div (2 * b)

RECURSIVE SqrtSearch(_, _, _)
SqrtSearch(n, lo, hi) ==
    IF lo >= hi THEN lo
    ELSE LET mid == (lo + hi + 1) \div 2
         IN IF mid * mid <= n THEN SqrtSearch(n, mid, hi)
            ELSE SqrtSearch(n, lo, mid - 1)

\* square root rounded to nearest
Sqrt(n) ==
    LET r == SqrtSearch(n, 0, 46340)
    IN IF n - r * r > r THEN r + 1 ELSE r

VAdd(a, b) == IF a.nan \/ b.nan THEN NaNV ELSE Vec(a.x + b.x, a.y + b.y)
VSub(a, b) == IF a.nan \/ b.nan THEN NaNV ELSE Vec(a.x - b.x, a.y - b.y)

LengthSquared(v) == v.x * v.x + v.y * v.y

\* Vec2::distance_squared; callers test .nan first
DistanceSquared(a, b) == LengthSquared(VSub(a, b))

\* Vec2::distance
Distance(a, b) == IF a.nan \/ b.nan THEN NaNLen ELSE Sqrt(DistanceSquared(a, b))

\* Vec2::normalize: v * (1 / |v|); the zero vector gives 0 * inf = NaN
Normalize(v) ==
    IF v.nan \/ IsZero(v) THEN NaNV
    ELSE LET g == SqrtGuard(LengthSquared(v))
             l == Sqrt(g * g * LengthSquared(v))
         IN Vec(RoundDiv(v.x * DirScale * g, l),
                RoundDiv(v.y * DirScale * g, l))

\* Vec2 * f32 with a unit vector on the left: dir * length
Scale(dir, len) ==
    IF dir.nan \/ len = NaNLen THEN NaNV
    ELSE Vec(RoundDiv(dir.x * len, DirScale), RoundDiv(dir.y * len, DirScale))

\* Vec2::to_angle = atan2(y, x); atan2(0, 0) = 0
ToAngle(v) ==
    IF v.nan THEN NaNV
    ELSE IF IsZero(v) THEN Vec(DirScale, 0)
    ELSE Normalize(v)

\* Vec2::from_angle(a) = (cos a, sin a)
FromAngle(a) == a

\* Vec2::rotate / Mat2::from_angle(a) * v / Quat::from_rotation_z(a) * q:
\* complex multiplication by the unit vector of the angle
Rotate(a, v) ==
    IF a.nan \/ v.nan THEN NaNV
    ELSE Vec(RoundDiv(a.x * v.x - a.y * v.y, DirScale),
             RoundDiv(a.y * v.x + a.x * v.y, DirScale))

\* the angle -a
Conj(a) == IF a.nan THEN NaNV ELSE Vec(a.x, 0 - a.y)

\* f32 subtraction of two angles: rot - base_angle
AngleSub(a, b) == Rotate(a, Conj(b))

\* Vec2::angle_to: signed angle from a to b, for unit vectors a and b
AngleTo(a, b) ==
    IF a.nan \/ b.nan THEN NaNV
    ELSE ToAngle(Vec(RoundDiv(a.x * b.x + a.y * b.y, DirScale),
                     RoundDiv(a.x * b.y - a.y * b.x, DirScale)))

\* ---------------------------------------------------------------------
\* Angles given in degrees (JointConstraint limits, initial rotations)
\* ---------------------------------------------------------------------
\* cos 45 = sin 45
Cos45 == (7071 * DirScale) \div 10000

\* (cos d, sin d) for the multiples of 45 degrees in [-180, 180]
DegVec(d) ==
    CASE d = 0 -> Vec(DirScale, 0)
      [] d = 45 -> Vec(Cos45, Cos45)
      [] d = 90 -> Vec(0, DirScale)
      [] d = 135 -> Vec(0 - Cos45, Cos45)
      [] d = 180 -> Vec(0 - DirScale, 0)
      [] d = 0 - 45 -> Vec(Cos45, 0 - Cos45)
      [] d = 0 - 90 -> Vec(0, 0 - DirScale)
      [] d = 0 - 135 -> Vec(0 - Cos45, 0 - Cos45)
      [] d = 0 - 180 -> Vec(0 - DirScale, 0)

\* angle a (a unit vector, in (-180, 180]) > d degrees
AngleGt(a, d) ==
    IF a.y >= 0 THEN (IF d >= 0 THEN a.x < DegVec(d).x ELSE TRUE)
    ELSE (IF d >= 0 THEN FALSE ELSE a.x > DegVec(d).x)

\* angle a < d degrees
AngleLt(a, d) ==
    IF a.y >= 0 THEN (IF d >= 0 THEN a.x > DegVec(d).x ELSE FALSE)
    ELSE (IF d >= 0 THEN TRUE ELSE a.x < DegVec(d).x)

\* f32::clamp(angle, min, max): panics when min > max, keeps NaN
Clamp(angle, min, max) ==
    IF min > max THEN [panic |-> TRUE, val |-> NaNV]
    ELSE IF angle.nan THEN [panic |-> FALSE, val |-> NaNV]
    ELSE IF AngleLt(angle, min) THEN [panic |-> FALSE, val |-> DegVec(min)]
    ELSE IF AngleGt(angle, max) THEN [panic |-> FALSE, val |-> DegVec(max)]
    ELSE [panic |-> FALSE, val |-> angle]

\* ---------------------------------------------------------------------
\* Transform and GlobalTransform
\* ---------------------------------------------------------------------
\* scale 1.0
ScaleOne == PosScale

\* Transform { translation, rotation, scale }: rotation about z as the unit
\* vector of its angle, uniform scale in units of 1/ScaleOne
Transform(pos, z, rot, scale) == [pos |-> pos, z |-> z, rot |-> rot, scale |-> scale]

\* GlobalTransform::from(Transform): the affine matrix, kept as its
\* translation and the image m of the x axis (rotation * scale)
GlobalFrom(t) ==
    [pos |-> t.pos, z |-> t.z,
     m |-> IF t.rot.nan \/ t.scale = NaNLen THEN NaNV
           ELSE Vec(RoundDiv(t.rot.x * t.scale, ScaleOne),
                    RoundDiv(t.rot.y * t.scale, ScaleOne))]

\* GlobalTransform::translation().xy()
GTranslation(g) == g.pos

\* GlobalTransform::rotation(): the normalised matrix column
GRotation(g) == Normalize(g.m)

\* GlobalTransform::scale(): the length of the matrix column
GScale(g) ==
    IF g.m.nan THEN NaNLen
    ELSE RoundDiv(Sqrt(LengthSquared(g.m)) * ScaleOne, DirScale)

\* inverse of the complex number m, in units of 1/DirScale
CInv(m) ==
    IF m.nan \/ IsZero(m) THEN NaNV
    ELSE LET n == RoundDiv(LengthSquared(m), DirScale)
         IN IF n = 0 THEN NaNV
            ELSE Vec(RoundDiv(m.x * DirScale, n), RoundDiv((0 - m.y) * DirScale, n))

\* GlobalTransform::reparented_to(parent): parent^-1 * self, decomposed
ReparentedTo(g, p) ==
    LET inv == CInv(p.m)
        rel == Rotate(inv, g.m)
        ps == GScale(p)
    IN [pos |-> Rotate(inv, VSub(g.pos, p.pos)),
        z |-> IF ps = NaNLen \/ ps = 0 THEN g.z
              ELSE RoundDiv((g.z - p.z) * ScaleOne, ps),
        rot |-> Normalize(rel),
        scale |-> IF rel.nan THEN NaNLen
                  ELSE RoundDiv(Sqrt(LengthSquared(rel)) * ScaleOne, DirScale)]

\* parent * child: the world transform of a child (transform propagation)
GlobalMul(p, t) ==
    LET c == GlobalFrom(t)
        ps == GScale(p)
    IN [pos |-> VAdd(p.pos, Rotate(p.m, t.pos)),
        z |-> IF ps = NaNLen THEN t.z ELSE p.z + RoundDiv(ps * t.z, ScaleOne),
        m |-> Rotate(p.m, c.m)]

\* ---------------------------------------------------------------------
\* HashMap
\* ---------------------------------------------------------------------
EmptyMap == << >>
Insert(map, k, v) == [x \in (DOMAIN map) \cup {k} |-> IF x = k THEN v ELSE map[x]]
Has(map, k) == k \in DOMAIN map

\* ---------------------------------------------------------------------
\* State
\* ---------------------------------------------------------------------
VARIABLES
    alive,      \* alive[e]: entity e has a Transform and a GlobalTransform
    parent,     \* parent[e]: the Parent of e, or NoEntity
    tr,         \* tr[e]: the local Transform
    gtr,        \* gtr[e]: the GlobalTransform
    ik,         \* ik[k]: the IKConstraint component k
    added,      \* added[k]: Added<IKConstraint> still holds for k
    pc,         \* position in the frame: "update", "map_new_ik", "solve_ik", "debug_ik"
    next,       \* solve_ik: index of the next constraint of the query
    cur,        \* solve: the constraint being solved, or 0
    target,     \* solve: the resolved target position
    iter,       \* solve: loop counter of `for _ in 0..self.iterations`
    panicked,   \* a system panicked (unwrap on None/Err, index out of bounds, clamp)
    tick,       \* frames started
    edits,      \* target edits made by the application
    warns,      \* number of warn! diagnostics emitted
    last,       \* what the last step of solve_ik did, for the properties
    pre,        \* GlobalTransforms at the start of the current/last solve
    solved,     \* solved[k]: calls of solve for k begun and ended in this frame
    atInit      \* the GlobalTransforms map_new_ik read, and the chains for which
                \* it found every joint and ran to its end

vars == <<alive, parent, tr, gtr, ik, added, pc, next, cur, target, iter,
          panicked, tick, edits, warns, last, pre, solved, atInit>>

NoEntity == 0

\* ---------------------------------------------------------------------
\* IKConstraint
\* ---------------------------------------------------------------------
TargetNone == [kind |-> "None", pos |-> Vec(0, 0), entity |-> NoEntity]
TargetPos(p) == [kind |-> "Pos", pos |-> p, entity |-> NoEntity]
TargetEntity(e) == [kind |-> "Entity", pos |-> Vec(0, 0), entity |-> e]

DefaultIterations == 10
DefaultEpsilon == PosScale

\* New with no iteration allowed
NewZeroIterations(chain) ==
    [target |-> TargetNone,
     chain |-> chain,
     iterations |-> 0,
     epsilon |-> DefaultEpsilon,
     bone_data |-> EmptyMap,
     joint_data |-> EmptyMap,
     joint_constraints |-> EmptyMap,
     rest_data |-> EmptyMap]

\* IKConstraint::new
New(chain) ==
    [target |-> TargetNone,
     chain |-> chain,
     iterations |-> DefaultIterations,
     epsilon |-> DefaultEpsilon,
     bone_data |-> EmptyMap,
     joint_data |-> EmptyMap,
     joint_constraints |-> EmptyMap,
     rest_data |-> EmptyMap]

\* IKConstraint::with_joint_constraints (HashMap::extend with a map of entries)
WithJointConstraints(c, constraints) ==
    [c EXCEPT !.joint_constraints =
        [e \in (DOMAIN c.joint_constraints) \cup (DOMAIN constraints) |->
            IF e \in DOMAIN constraints THEN constraints[e] ELSE c.joint_constraints[e]]]

WithIterations(c, n) == [c EXCEPT !.iterations = n]
WithEpsilon(c, eps) == [c EXCEPT !.epsilon = eps]
WithTarget(c, t) == [c EXCEPT !.target = t]

\* set_target building the constraint anew around the target
set_target_rebuilt(c, t) == [New(c.chain) EXCEPT !.target = t]

\* IKConstraint::set_target
set_target(c, t) == [c EXCEPT !.target = t]

\* remove_target leaving the stored target in place
remove_target_kept(c) == c

\* IKConstraint::remove_target
remove_target(c) == [c EXCEPT !.target = TargetNone]

HasParent(e) == e # NoEntity /\ alive[e] /\ parent[e] # NoEntity

\* a world during one system run: the two transform stores and the panic flag
World(g, t) == [gtr |-> g, tr |-> t, panic |-> FALSE]
Panic(w) == [w EXCEPT !.panic = TRUE]

\* SetPosition taking pos as a displacement of a parentless joint
SetPositionBy(w, entity, pos) ==
    IF HasParent(entity)
    THEN IF alive[parent[entity]] /\ parent[entity] # entity
         THEN LET g == w.gtr[entity]
                  new_global_tr ==
                      GlobalFrom(Transform(pos, g.z, GRotation(g), GScale(g)))
              IN [w EXCEPT !.tr[entity] = ReparentedTo(new_global_tr, w.gtr[parent[entity]]),
                           !.gtr[entity] = new_global_tr]
         ELSE w
    ELSE IF entity # NoEntity /\ alive[entity]
         THEN LET t == [w.tr[entity] EXCEPT !.pos = VAdd(w.tr[entity].pos, pos)]
              IN [w EXCEPT !.tr[entity] = t, !.gtr[entity] = GlobalFrom(t)]
         ELSE w

\* SetPosition carrying the parent of a parented joint to the new position
SetPositionMovingParent(w, entity, pos) ==
    IF HasParent(entity)
    THEN IF alive[parent[entity]] /\ parent[entity] # entity
         THEN LET g == w.gtr[entity]
                  new_global_tr ==
                      GlobalFrom(Transform(pos, g.z, GRotation(g), GScale(g)))
              IN [w EXCEPT !.tr[entity] = ReparentedTo(new_global_tr, w.gtr[parent[entity]]),
                           !.gtr[entity] = new_global_tr,
                           !.gtr[parent[entity]].pos = pos]
         ELSE w
    ELSE IF entity # NoEntity /\ alive[entity]
         THEN LET t == [w.tr[entity] EXCEPT !.pos = pos]
              IN [w EXCEPT !.tr[entity] = t, !.gtr[entity] = GlobalFrom(t)]
         ELSE w

\* IKConstraint::set_position
SetPosition(w, entity, pos) ==
    IF HasParent(entity)
    THEN IF alive[parent[entity]] /\ parent[entity] # entity
         THEN LET g == w.gtr[entity]
                  new_global_tr ==
                      GlobalFrom(Transform(pos, g.z, GRotation(g), GScale(g)))
              IN [w EXCEPT !.tr[entity] = ReparentedTo(new_global_tr, w.gtr[parent[entity]]),
                           !.gtr[entity] = new_global_tr]
         ELSE w
    ELSE IF entity # NoEntity /\ alive[entity]
         THEN LET t == [w.tr[entity] EXCEPT !.pos = pos]
              IN [w EXCEPT !.tr[entity] = t, !.gtr[entity] = GlobalFrom(t)]
         ELSE w

\* SetRotation writing the local rotation of every joint, parented or not
SetRotationParentless(w, c, entity, rot) ==
    IF w.panic THEN w
    ELSE IF ~Has(c.rest_data, entity) \/ ~Has(c.joint_data, entity) THEN Panic(w)
    ELSE LET base_rot == c.rest_data[entity]
             base_angle == c.joint_data[entity]
             diff_from_rest == AngleSub(rot, base_angle)
         IN IF alive[entity]
            THEN LET t == [w.tr[entity] EXCEPT !.rot = Rotate(base_rot, diff_from_rest)]
                 IN [w EXCEPT !.tr[entity] = t, !.gtr[entity] = GlobalFrom(t)]
            ELSE w

\* IKConstraint::set_rotation
SetRotation(w, c, entity, rot) ==
    IF w.panic THEN w
    ELSE IF ~Has(c.rest_data, entity) \/ ~Has(c.joint_data, entity) THEN Panic(w)
    ELSE LET base_rot == c.rest_data[entity]
             base_angle == c.joint_data[entity]
             diff_from_rest == AngleSub(rot, base_angle)
         IN IF HasParent(entity)
            THEN IF alive[parent[entity]] /\ parent[entity] # entity
                 THEN LET g == w.gtr[entity]
                          new_global_tr ==
                              GlobalFrom(Transform(g.pos, g.z,
                                                   Rotate(diff_from_rest, base_rot),
                                                   GScale(g)))
                      IN [w EXCEPT !.tr[entity] =
                                       ReparentedTo(new_global_tr, w.gtr[parent[entity]]),
                                   !.gtr[entity] = new_global_tr]
                 ELSE w
            ELSE IF alive[entity]
                 THEN LET t == [w.tr[entity] EXCEPT !.rot = Rotate(base_rot, diff_from_rest)]
                      IN [w EXCEPT !.tr[entity] = t, !.gtr[entity] = GlobalFrom(t)]
                 ELSE w

\* BackwardPull with the direction taken from e0 to e1
BackwardPullReversed(e1_pos, e0_pos, length) ==
    VAdd(e1_pos, Scale(Normalize(VSub(e1_pos, e0_pos)), length))

\* solve_iteration, line 304: e0 at the bone's length from e1, towards e0
BackwardPull(e1_pos, e0_pos, length) ==
    VAdd(e1_pos, Scale(Normalize(VSub(e0_pos, e1_pos)), length))

\* solve_iteration, lines 295-306: pull the chain to the effector, e1 pulls e0
RECURSIVE BackwardPass(_, _, _)
BackwardPass(w, c, j) ==
    IF w.panic \/ j < 2 THEN w
    ELSE LET e1 == c.chain[j]
             e0 == c.chain[j - 1]
         IN IF ~Has(c.bone_data, <<e1, e0>>) \/ ~alive[e1] \/ ~alive[e0]
            THEN Panic(w)
            ELSE LET bone == c.bone_data[<<e1, e0>>]
                     e1_pos == GTranslation(w.gtr[e1])
                     e0_pos == GTranslation(w.gtr[e0])
                     new_e0_pos == BackwardPull(e1_pos, e0_pos, bone)
                 IN BackwardPass(SetPosition(w, e0, new_e0_pos), c, j - 1)

\* solve_iteration, lines 308-323: rotate the effector towards the target
EffectorRotation(w, c, tgt) ==
    LET n == Len(c.chain)
        effector == c.chain[n]
    IN IF w.panic THEN w
       ELSE IF ~alive[effector] THEN Panic(w)
       ELSE LET eff_pos == GTranslation(w.gtr[effector])
                to_target == Normalize(VSub(tgt, eff_pos))
            IN IF ~to_target.nan
               THEN SetRotation(w, c, effector, ToAngle(to_target))
               ELSE IF n < 2 \/ ~alive[c.chain[n - 1]] THEN Panic(w)
               ELSE LET prev_pos == GTranslation(w.gtr[c.chain[n - 1]])
                    IN SetRotation(w, c, effector,
                                   ToAngle(Normalize(VSub(eff_pos, prev_pos))))

\* lines 353-356 and 372-375: the angle, clamped when the joint is constrained
Constrain(c, e, angle) ==
    IF Has(c.joint_constraints, e)
    THEN Clamp(angle, 0 - c.joint_constraints[e].cw, c.joint_constraints[e].ccw)
    ELSE [panic |-> FALSE, val |-> angle]

\* BoneLength without the lookup of lines 348-350
BoneLengthMeasured(c, e0, e1, e0_pos, e1_pos) == Distance(e1_pos, e0_pos)

\* solve_iteration, lines 346-350: the stored length of the bone, or else the
\* current distance
BoneLength(c, e0, e1, e0_pos, e1_pos) ==
    IF Has(c.bone_data, <<e0, e1>>)
    THEN c.bone_data[<<e0, e1>>]
    ELSE Distance(e1_pos, e0_pos)

\* solve_iteration, lines 337-366: pull the chain to the anchor, e0 pulls e1
RECURSIVE ForwardPass(_, _, _, _)
ForwardPass(w, c, j, prev_dir) ==
    IF w.panic \/ j > Len(c.chain) - 1 THEN [w |-> w, prev_dir |-> prev_dir]
    ELSE LET e0 == c.chain[j]
             e1 == c.chain[j + 1]
         IN IF ~alive[e1] \/ ~alive[e0]
            THEN [w |-> Panic(w), prev_dir |-> prev_dir]
            ELSE LET e1_pos == GTranslation(w.gtr[e1])
                     e0_pos == GTranslation(w.gtr[e0])
                     dir0 == Normalize(VSub(e1_pos, e0_pos))
                     dist == BoneLength(c, e0, e1, e0_pos, e1_pos)
                     angle == AngleTo(prev_dir, dir0)
                     rotation == Constrain(c, e0, angle)
                     dir == Normalize(Rotate(rotation.val, prev_dir))
                     new_e1_pos == VAdd(e0_pos, Scale(dir, dist))
                     w1 == SetPosition(w, e1, new_e1_pos)
                     w2 == SetRotation(w1, c, e0, ToAngle(dir))
                 IN IF rotation.panic
                    THEN [w |-> Panic(w), prev_dir |-> prev_dir]
                    ELSE ForwardPass(w2, c, j + 1, dir)

\* solve_iteration, lines 368-377: restrain the effector's angle
EffectorClamp(w, c, prev_dir) ==
    LET effector == c.chain[Len(c.chain)]
    IN IF w.panic THEN w
       ELSE IF ~alive[effector] THEN Panic(w)
       ELSE LET facing == GRotation(w.gtr[effector])
                angle == AngleTo(prev_dir, facing)
                rotation == Constrain(c, effector, angle)
                dir == Rotate(rotation.val, prev_dir)
            IN IF rotation.panic THEN Panic(w)
               ELSE SetRotation(w, c, effector, ToAngle(dir))

\* Repin without the call of line 326
RepinSkipped(w, anchor, anchor_gtr) == w

\* solve_iteration, line 326: bring the anchor back to its original position
Repin(w, anchor, anchor_gtr) ==
    IF w.panic THEN w ELSE SetPosition(w, anchor, GTranslation(anchor_gtr))

\* SeekTarget bringing the effector half of the way to the target
SeekTargetHalfway(w, effector, tgt) ==
    LET p == GTranslation(w.gtr[effector])
    IN SetPosition(w, effector,
                   IF p.nan \/ tgt.nan THEN NaNV
                   ELSE Vec((p.x + tgt.x) \div 2, (p.y + tgt.y) \div 2))

\* solve_iteration, line 289: bring the effector to the target position
SeekTarget(w, effector, tgt) == SetPosition(w, effector, tgt)

\* IKConstraint::solve_iteration
SolveIteration(w, c, tgt) ==
    LET n == Len(c.chain)
    IN IF n = 0 THEN Panic(w)
       ELSE LET effector == c.chain[n]
                anchor == c.chain[1]
            IN IF ~alive[anchor]
                  \/ (HasParent(anchor) /\ ~alive[parent[anchor]])
                  \/ ~Has(c.joint_data, anchor)
               THEN Panic(w)
               ELSE LET anchor_gtr == w.gtr[anchor]
                        anchor_dir ==
                            IF HasParent(anchor)
                            THEN Rotate(FromAngle(c.joint_data[anchor]),
                                        FromAngle(GRotation(w.gtr[parent[anchor]])))
                            ELSE FromAngle(c.joint_data[anchor])
                        w1 == SeekTarget(w, effector, tgt)
                        w2 == BackwardPass(w1, c, n)
                        w3 == EffectorRotation(w2, c, tgt)
                        w4 == Repin(w3, anchor, anchor_gtr)
                        f == ForwardPass(w4, c, 1, anchor_dir)
                    IN EffectorClamp(f.w, c, f.prev_dir)

\* WithinEpsilon with the comparison <=
WithinEpsilonInclusive(w, c, tgt) ==
    LET eff_pos == GTranslation(w.gtr[c.chain[Len(c.chain)]])
    IN ~eff_pos.nan /\ ~tgt.nan
       /\ DistanceSquared(eff_pos, tgt) <= c.epsilon * c.epsilon

\* IKConstraint::solve, lines 391-396: the early-exit test of one loop round;
\* a comparison with NaN is false
WithinEpsilon(w, c, tgt) ==
    LET eff_pos == GTranslation(w.gtr[c.chain[Len(c.chain)]])
    IN ~eff_pos.nan /\ ~tgt.nan
       /\ DistanceSquared(eff_pos, tgt) < c.epsilon * c.epsilon

\* LoopDone for the range 0..=self.iterations
LoopDoneInclusive(c, i) == i > c.iterations

\* IKConstraint::solve, line 388: the range 0..self.iterations is exhausted
LoopDone(c, i) == i >= c.iterations

\* InsertBones storing the length under the key (e, prev_e) only
InsertBonesOneWay(bone_data, e, prev_e, dist) ==
    Insert(bone_data, <<e, prev_e>>, dist)

\* map_new_ik, lines 452-453: the bone's length under both orders of the pair
InsertBones(bone_data, e, prev_e, dist) ==
    Insert(Insert(bone_data, <<e, prev_e>>, dist), <<prev_e, e>>, dist)

\* RestDir taking the direction to the next joint wherever there is one
RestDirOutgoing(chain, g, j) ==
    IF j < Len(chain)
    THEN VSub(GTranslation(g[chain[j + 1]]), GTranslation(g[chain[j]]))
    ELSE VSub(GTranslation(g[chain[j]]), GTranslation(g[chain[j - 1]]))

\* map_new_ik, lines 456-473: the direction whose angle is the rest angle of
\* joint j; the anchor takes the direction to its child, every other joint
\* the direction from its predecessor
RestDir(chain, g, j) ==
    IF j = 1
    THEN VSub(GTranslation(g[chain[2]]), GTranslation(g[chain[1]]))
    ELSE VSub(GTranslation(g[chain[j]]), GTranslation(g[chain[j - 1]]))

\* map_new_ik, lines 441-474: the rest pose of one chain, joint j onwards
RECURSIVE MapJoints(_, _, _)
MapJoints(r, g, j) ==
    IF r.panic \/ j > Len(r.c.chain) THEN r
    ELSE LET c == r.c
             e == c.chain[j]
             rest == Insert(c.rest_data, e, GRotation(g[e]))
             bones ==
                 IF j > 1
                 THEN LET prev_e == c.chain[j - 1]
                          dist == Distance(GTranslation(g[e]), GTranslation(g[prev_e]))
                      IN InsertBones(c.bone_data, e, prev_e, dist)
                 ELSE c.bone_data
             c1 == [c EXCEPT !.rest_data = rest, !.bone_data = bones]
         IN IF j = 1 /\ Len(c.chain) < 2
            THEN [c |-> c1, panic |-> TRUE, warn |-> 0]
            ELSE LET dir == RestDir(c.chain, g, j)
                     c2 == [c1 EXCEPT !.joint_data = Insert(c.joint_data, e, ToAngle(dir))]
                 IN MapJoints([c |-> c2, panic |-> FALSE, warn |-> 0], g, j + 1)

\* map_new_ik, lines 430-481: one constraint of the Added<IKConstraint> query
MapChain(c, al, g) ==
    IF \A j \in 1..Len(c.chain) : al[c.chain[j]]
    THEN MapJoints([c |-> c, panic |-> FALSE, warn |-> 0], g, 1)
    ELSE [c |-> c, panic |-> FALSE, warn |-> 1]

\* transform propagation: the GlobalTransform of e from the local Transforms
RECURSIVE Propagated(_, _, _, _, _)
Propagated(al, par, t, g, e) ==
    IF ~al[e] THEN g[e]
    ELSE IF par[e] = NoEntity THEN GlobalFrom(t[e])
    ELSE IF al[par[e]] THEN GlobalMul(Propagated(al, par, t, g, par[e]), t[e])
    ELSE g[e]

\* ---------------------------------------------------------------------
\* Scenes
\* ---------------------------------------------------------------------
MaxTicks == 2
MaxEdits == 1

\* entities 1, 2, 3: the joints of the first chain; 4: an entity that can be
\* followed as a target; 5: an entity that can be the parent of the anchor;
\* 6, 7: the joints of the second chain
Entities == {1, 2, 3, 4, 5, 6, 7}
Follow == 4
AnchorParent == 5
\* the IKConstraint components, in the order the queries iterate them
Chains == {1, 2}
SecondChain == <<6, 7>>
\* joints the application may despawn
Despawnable == {1, 2, 3}

\* a point given in whole length units
P(x, y) == Vec(x * PosScale, y * PosScale)

Identity == Vec(DirScale, 0)

Poses ==
    { <<P(0, 0), P(10, 0), P(20, 0)>>,
      <<P(0, 0), P(10, 0), P(10, 10)>>,
      <<P(0, 0), P(0, 10), P(0, 20)>>,
      <<P(0, 0), P(6, 8), P(12, 0)>> }

Straight == <<P(0, 0), P(10, 0), P(20, 0)>>
Bent == <<P(0, 0), P(10, 0), P(10, 10)>>
Upright == <<P(0, 0), P(0, 10), P(0, 20)>>

\* targets within reach of a chain with two bones of length 10
NearTargets ==
    { P(15, 5), P(5, 0), P(10, 0), P(0 - 10, 0), P(0, 20), P(12, 9),
      P(3, 4), P(0, 0), P(0 - 6, 8), P(20, 0), P(12, 0 - 16) }

\* targets at distance 25 from the origin
FarTargets ==
    { P(25, 0), P(0, 25), P(0 - 25, 0), P(15, 20), P(7, 0 - 24), P(0 - 20, 15) }

EditTargets == { P(15, 5), P(10, 0), P(0, 25), P(0 - 6, 8) }

\* the second chain: one bone from (30, 0) to (40, 0), and its target
SecondPose == <<P(30, 0), P(40, 0)>>
SecondTarget == P(30, 10)
\* the chains whose target the application changes at run time
Editable == {1}

FollowStart == P(12, 9)
FollowMoves == { P(0, 20) }

NoConstraints == EmptyMap
Limit(ccw, cw) == [ccw |-> ccw, cw |-> cw]
ConstraintSets ==
    { [e \in {2} |-> Limit(90, 90)],
      [e \in {1, 2, 3} |-> Limit(45, 45)],
      [e \in {3} |-> Limit(0, 0)],
      [e \in {1} |-> Limit(0, 90)] }

\* chain: the joints given to IKConstraint::new for the first chain;
\* second: the target of the second chain; nested: every joint of the first
\* chain is the child of the joint before it; link: the anchor of the second
\* chain is the child of the effector of the first
Setup(joints, tgt, constraints, iterations, anchorParent, dead) ==
    [joints |-> joints, target |-> tgt, constraints |-> constraints,
     iterations |-> iterations, anchorParent |-> anchorParent, dead |-> dead,
     chain |-> <<1, 2, 3>>, second |-> TargetNone, nested |-> FALSE,
     link |-> FALSE]

Setups ==
    \* default chains
    { Setup(j, TargetPos(t), NoConstraints, DefaultIterations, FALSE, {}) :
        j \in Poses, t \in NearTargets \cup FarTargets }
    \cup
    { Setup(j, TargetNone, NoConstraints, DefaultIterations, FALSE, {}) : j \in Poses }
    \cup
    \* constrained joints
    { Setup(j, TargetPos(t), cs, DefaultIterations, FALSE, {}) :
        j \in {Straight, Upright},
        t \in {P(15, 5), P(0, 20), P(0 - 6, 8), P(0, 25), P(10, 0)},
        cs \in ConstraintSets }
    \cup
    \* iteration limits
    { Setup(Straight, TargetPos(t), NoConstraints, n, FALSE, {}) :
        t \in {P(15, 5), P(0, 20), P(0, 25)}, n \in {0, 1, 2} }
    \cup
    \* the anchor is the child of another entity
    { Setup(Straight, TargetPos(t), NoConstraints, DefaultIterations, TRUE, {}) :
        t \in {P(15, 5), P(0, 20), P(0, 25)} }
    \cup
    \* a followed entity, present or not
    { Setup(Straight, TargetEntity(Follow), NoConstraints, DefaultIterations, FALSE, d) :
        d \in {{}, {Follow}} }
    \cup
    \* a joint without transform
    { Setup(Straight, t, NoConstraints, DefaultIterations, FALSE, {d}) :
        t \in {TargetPos(P(15, 5)), TargetPos(P(20, 0)), TargetNone}, d \in {1, 2, 3} }
    \cup
    \* chains of 0, 1 and 2 joints
    { [Setup(Straight, t, NoConstraints, DefaultIterations, FALSE, {})
         EXCEPT !.chain = ch, !.second = t2] :
        ch \in {<< >>, <<1>>, <<1, 2>>},
        t \in {TargetNone, TargetPos(P(15, 5))},
        t2 \in {TargetNone, TargetPos(SecondTarget)} }
    \cup
    \* two chains with a target, one of which may fail
    { [Setup(Straight, t, NoConstraints, DefaultIterations, FALSE, d)
         EXCEPT !.second = TargetPos(SecondTarget)] :
        t \in {TargetNone, TargetPos(P(15, 5)), TargetEntity(Follow)},
        d \in {{}, {Follow}, {1}, {2}, {6}} }
    \cup
    \* every joint the child of the joint before it
    { [Setup(j, TargetPos(t), NoConstraints, DefaultIterations, ap, {})
         EXCEPT !.nested = TRUE] :
        j \in {Straight, <<P(0, 0), P(10, 0), P(10, 10)>>},
        t \in {P(15, 5), P(0, 20), P(10, 0), P(0, 25)},
        ap \in BOOLEAN }
    \cup
    \* the effector at half of epsilon and at epsilon from the target
    { Setup(Straight, TargetPos(t), NoConstraints, DefaultIterations, FALSE, {}) :
        t \in {Vec(20 * PosScale + DefaultEpsilon \div 2, 0),
               Vec(20 * PosScale + DefaultEpsilon, 0)} }
    \cup
    \* a pose that exceeds the joints' limits, the effector on the target, at
    \* half of epsilon and at epsilon from it
    { Setup(Bent, TargetPos(t), [e \in {1, 2, 3} |-> Limit(45, 45)],
            DefaultIterations, FALSE, {}) :
        t \in {P(10, 10), Vec(10 * PosScale, 10 * PosScale + DefaultEpsilon \div 2),
               Vec(10 * PosScale, 10 * PosScale + DefaultEpsilon)} }
    \cup
    \* the second chain hangs on the effector of the first
    { [Setup(Straight, TargetPos(t), NoConstraints, DefaultIterations, FALSE, {})
         EXCEPT !.second = TargetPos(SecondTarget), !.link = TRUE] :
        t \in {P(15, 5), P(0, 20)} }

\* the world transform of the anchor's parent: a quarter turn, scale 1
ParentTransform == Transform(P(0 - 5, 5), 0, DegVec(90), ScaleOne)

InitParent(s, e) ==
    IF e = 1 /\ s.anchorParent THEN AnchorParent
    ELSE IF e \in {2, 3} /\ s.nested THEN e - 1
    ELSE IF e = SecondChain[1] /\ s.link THEN s.chain[Len(s.chain)]
    ELSE NoEntity

\* the joints of the second chain are drawn above the plane, at twice the size
SecondZ == 3 * PosScale
SecondScale == 2 * ScaleOne

InitTransform(s, e) ==
    IF e \in {1, 2, 3}
    THEN IF e = 1 /\ s.anchorParent
         THEN ReparentedTo(GlobalFrom(Transform(s.joints[e], 0, Identity, ScaleOne)),
                           GlobalFrom(ParentTransform))
         ELSE IF e \in {2, 3} /\ s.nested
         THEN Transform(VSub(s.joints[e], s.joints[e - 1]), 0, Identity, ScaleOne)
         ELSE Transform(s.joints[e], 0, Identity, ScaleOne)
    ELSE IF e = Follow THEN Transform(FollowStart, 0, Identity, ScaleOne)
    ELSE IF e = AnchorParent THEN ParentTransform
    ELSE IF e = SecondChain[1] /\ s.link
    THEN Transform(VSub(SecondPose[1], s.joints[Len(s.chain)]), SecondZ, Identity,
                   SecondScale)
    ELSE Transform(SecondPose[e - 5], SecondZ, Identity, SecondScale)

NoLast == [chain |-> 0, what |-> "none"]
\* a frame that has not begun solving any chain
NotSolved == [k \in Chains |-> [begun |-> 0, ended |-> 0]]
Did(k, what) == [chain |-> k, what |-> what]

Init ==
    \E s \in Setups :
        /\ alive = [e \in Entities |-> e \notin s.dead]
        /\ parent = [e \in Entities |-> InitParent(s, e)]
        /\ tr = [e \in Entities |-> InitTransform(s, e)]
        /\ gtr = [e \in Entities |-> GlobalFrom(Transform(P(0, 0), 0, Identity, ScaleOne))]
        /\ ik = [k \in Chains |->
                    IF k = 1
                    THEN WithTarget(
                             WithIterations(
                                 WithJointConstraints(New(s.chain), s.constraints),
                                 s.iterations),
                             s.target)
                    ELSE WithTarget(New(SecondChain), s.second)]
        /\ added = [k \in Chains |-> TRUE]
        /\ pc = "update"
        /\ next = 1
        /\ cur = 0
        /\ target = Vec(0, 0)
        /\ iter = 0
        /\ panicked = FALSE
        /\ tick = 0
        /\ edits = 0
        /\ warns = 0
        /\ last = NoLast
        /\ pre = gtr
        /\ solved = NotSolved
        /\ atInit = [g |-> gtr, ok |-> [k \in Chains |-> FALSE]]

\* ---------------------------------------------------------------------
\* The application, between two frames
\* ---------------------------------------------------------------------
sceneVars == <<alive, parent, tr, gtr>>
solveVars == <<next, cur, target, iter, pre>>
histVars == <<solved, atInit>>

\* the application changes the scene between two frames, once, after the
\* first frame and while another frame follows
CanEdit ==
    /\ pc = "update" /\ ~panicked /\ edits < MaxEdits
    /\ tick >= 1 /\ tick < MaxTicks
    /\ last = NoLast

Edited == Did(0, "edit")

\* some chain follows the entity e
Followed(e) == \E k \in Chains : ik[k].target = TargetEntity(e)

\* IKConstraint::set_target
SetTarget(k, t) ==
    /\ CanEdit
    /\ ik' = [ik EXCEPT ![k] = set_target(ik[k], t)]
    /\ edits' = edits + 1
    /\ last' = Edited
    /\ UNCHANGED <<sceneVars, solveVars, histVars, added, pc, panicked, tick, warns>>

\* IKConstraint::remove_target
RemoveTarget(k) ==
    /\ CanEdit
    /\ ik' = [ik EXCEPT ![k] = remove_target(ik[k])]
    /\ edits' = edits + 1
    /\ last' = Edited
    /\ UNCHANGED <<sceneVars, solveVars, histVars, added, pc, panicked, tick, warns>>

\* the application spawns the followed entity
SpawnFollow ==
    /\ CanEdit
    /\ Followed(Follow)
    /\ ~alive[Follow]
    /\ alive' = [alive EXCEPT ![Follow] = TRUE]
    /\ tr' = [tr EXCEPT ![Follow] = Transform(FollowStart, 0, Identity, ScaleOne)]
    /\ gtr' = [gtr EXCEPT ![Follow] =
                  GlobalFrom(Transform(P(0, 0), 0, Identity, ScaleOne))]
    /\ edits' = edits + 1
    /\ last' = Edited
    /\ UNCHANGED <<parent, ik, solveVars, histVars, added, pc, panicked, tick, warns>>

\* the application despawns the followed entity
DespawnFollow ==
    /\ CanEdit
    /\ Followed(Follow)
    /\ alive[Follow]
    /\ alive' = [alive EXCEPT ![Follow] = FALSE]
    /\ edits' = edits + 1
    /\ last' = Edited
    /\ UNCHANGED <<parent, tr, gtr, ik, solveVars, histVars, added, pc, panicked, tick,
                   warns>>

\* the application despawns a joint that has no child
DespawnJoint(e) ==
    /\ CanEdit
    /\ alive[e]
    /\ \A x \in Entities : parent[x] # e
    /\ alive' = [alive EXCEPT ![e] = FALSE]
    /\ edits' = edits + 1
    /\ last' = Edited
    /\ UNCHANGED <<parent, tr, gtr, ik, solveVars, histVars, added, pc, panicked, tick,
                   warns>>

\* the application moves the followed entity
MoveFollow(p) ==
    /\ CanEdit
    /\ Followed(Follow)
    /\ alive[Follow]
    /\ tr[Follow].pos # p
    /\ tr' = [tr EXCEPT ![Follow].pos = p]
    /\ edits' = edits + 1
    /\ last' = Edited
    /\ UNCHANGED <<alive, parent, gtr, ik, solveVars, histVars, added, pc, panicked, tick,
                   warns>>

\* ---------------------------------------------------------------------
\* One frame: PostUpdate
\* ---------------------------------------------------------------------
\* NextSystem with solve_ik scheduled before map_new_ik
NextSystemSolveFirst(s) ==
    CASE s = "update" -> "solve_ik"
      [] s = "solve_ik" -> "map_new_ik"
      [] s = "map_new_ik" -> "debug_ik"
      [] s = "debug_ik" -> "update"

\* IKPlugin::build: (map_new_ik, solve_ik, debug_ik).chain() after
\* TransformPropagate; "update" stands for the rest of the frame
NextSystem(s) ==
    CASE s = "update" -> "map_new_ik"
      [] s = "map_new_ik" -> "solve_ik"
      [] s = "solve_ik" -> "debug_ik"
      [] s = "debug_ik" -> "update"

\* TransformSystem::TransformPropagate, which the three systems run after
Propagate ==
    /\ pc = "update" /\ ~panicked /\ tick < MaxTicks
    /\ gtr' = [e \in Entities |-> Propagated(alive, parent, tr, gtr, e)]
    /\ pc' = NextSystem("update")
    /\ tick' = tick + 1
    /\ last' = NoLast
    /\ solved' = NotSolved
    /\ UNCHANGED <<alive, parent, tr, ik, solveVars, added, panicked, edits, warns, atInit>>

\* IsAdded holding in every frame
IsAddedAlways(k) == TRUE

\* the filter Added<IKConstraint> of map_new_ik's query
IsAdded(k) == added[k]

\* map_new_ik over the constraints k, k+1, ... of the query
RECURSIVE MapAll(_, _)
MapAll(r, k) ==
    IF r.panic \/ k \notin Chains THEN r
    ELSE IF ~IsAdded(k) THEN MapAll(r, k + 1)
    ELSE LET m == MapChain(r.ik[k], alive, gtr)
         IN MapAll([ik |-> [r.ik EXCEPT ![k] = m.c],
                    panic |-> m.panic,
                    warns |-> r.warns + m.warn], k + 1)

\* map_new_ik
MapNewIk ==
    /\ pc = "map_new_ik" /\ ~panicked
    /\ LET r == MapAll([ik |-> ik, panic |-> FALSE, warns |-> warns], 1)
       IN /\ ik' = r.ik
          /\ panicked' = r.panic
          /\ warns' = r.warns
    /\ added' = [k \in Chains |-> FALSE]
    /\ atInit' = IF \E k \in Chains : added[k]
                 THEN [g |-> gtr,
                       ok |-> [k \in Chains |->
                                 IF added[k]
                                 THEN /\ \A j \in 1..Len(ik[k].chain) : alive[ik[k].chain[j]]
                                      /\ ~panicked'
                                 ELSE atInit.ok[k]]]
                 ELSE atInit
    /\ pc' = NextSystem("map_new_ik")
    /\ next' = 1
    /\ cur' = 0
    /\ last' = NoLast
    /\ UNCHANGED <<sceneVars, target, iter, pre, tick, edits, solved>>

\* ResolveTarget with IKTarget::None read as the origin
ResolveTargetNoneAsOrigin(c) ==
    CASE c.target.kind = "None" -> [ok |-> TRUE, warn |-> 0, pos |-> Vec(0, 0)]
      [] c.target.kind = "Pos" -> [ok |-> TRUE, warn |-> 0, pos |-> c.target.pos]
      [] c.target.kind = "Entity" ->
            IF alive[c.target.entity]
            THEN [ok |-> TRUE, warn |-> 0, pos |-> GTranslation(gtr[c.target.entity])]
            ELSE [ok |-> FALSE, warn |-> 1, pos |-> Vec(0, 0)]

\* ResolveTarget reading the followed entity's local translation, and the
\* origin when the entity has no transform
ResolveTargetLocalOrDefault(c) ==
    CASE c.target.kind = "None" -> [ok |-> FALSE, warn |-> 0, pos |-> Vec(0, 0)]
      [] c.target.kind = "Pos" -> [ok |-> TRUE, warn |-> 0, pos |-> c.target.pos]
      [] c.target.kind = "Entity" ->
            IF alive[c.target.entity]
            THEN [ok |-> TRUE, warn |-> 0, pos |-> tr[c.target.entity].pos]
            ELSE [ok |-> TRUE, warn |-> 1, pos |-> Vec(0, 0)]

\* solve_ik, lines 409-420: the target of a constraint
\* [ok |-> FALSE] stands for `continue`
ResolveTarget(c) ==
    CASE c.target.kind = "None" -> [ok |-> FALSE, warn |-> 0, pos |-> Vec(0, 0)]
      [] c.target.kind = "Pos" -> [ok |-> TRUE, warn |-> 0, pos |-> c.target.pos]
      [] c.target.kind = "Entity" ->
            IF alive[c.target.entity]
            THEN [ok |-> TRUE, warn |-> 0, pos |-> GTranslation(gtr[c.target.entity])]
            ELSE [ok |-> FALSE, warn |-> 1, pos |-> Vec(0, 0)]

\* SolveReturned holding while a solve is still iterating
SolveReturnedAlways == TRUE

\* solve_ik, line 422: the call of constraint.solve has returned, the loop
\* goes on
SolveReturned == cur = 0

\* solve_ik: the loop reaches the next constraint and, with a target,
\* enters IKConstraint::solve
SolveNext ==
    /\ pc = "solve_ik" /\ ~panicked /\ SolveReturned /\ next \in Chains
    /\ LET c == ik[next]
           r == ResolveTarget(c)
       IN /\ warns' = warns + r.warn
          /\ IF ~r.ok
             THEN /\ last' = Did(next, IF r.warn = 1 THEN "unresolved" ELSE "none")
                  /\ UNCHANGED <<cur, target, iter, pre, panicked, solved>>
             ELSE /\ target' = r.pos
                  /\ iter' = 0
                  /\ pre' = gtr
                  /\ IF Len(c.chain) = 0
                     THEN /\ panicked' = TRUE
                          /\ last' = Did(next, "panic")
                          /\ solved' = [solved EXCEPT ![next].begun = @ + 1]
                          /\ UNCHANGED cur
                     ELSE IF LoopDone(c, 0)
                     THEN /\ last' = Did(next, "return")
                          /\ solved' = [solved EXCEPT ![next].begun = @ + 1,
                                                       ![next].ended = @ + 1]
                          /\ UNCHANGED <<cur, panicked>>
                     ELSE /\ cur' = next
                          /\ last' = Did(next, "begin")
                          /\ solved' = [solved EXCEPT ![next].begun = @ + 1]
                          /\ UNCHANGED panicked
    /\ next' = next + 1
    /\ UNCHANGED <<sceneVars, ik, added, pc, tick, edits, atInit>>

\* IKConstraint::solve: one round of `for _ in 0..self.iterations`
SolveIter ==
    /\ pc = "solve_ik" /\ ~panicked /\ cur # 0
    /\ LET c == ik[cur]
           w == World(gtr, tr)
       IN IF ~alive[c.chain[Len(c.chain)]]
          THEN /\ panicked' = TRUE
               /\ last' = Did(cur, "panic")
               /\ UNCHANGED <<gtr, tr, cur, iter, solved>>
          ELSE IF WithinEpsilon(w, c, target)
          THEN /\ cur' = 0
               /\ last' = Did(cur, "break")
               /\ solved' = [solved EXCEPT ![cur].ended = @ + 1]
               /\ UNCHANGED <<gtr, tr, iter, panicked>>
          ELSE LET w1 == SolveIteration(w, c, target)
               IN /\ gtr' = w1.gtr
                  /\ tr' = w1.tr
                  /\ panicked' = w1.panic
                  /\ iter' = iter + 1
                  /\ cur' = IF ~w1.panic /\ LoopDone(c, iter + 1) THEN 0 ELSE cur
                  /\ last' = Did(cur, IF w1.panic THEN "panic"
                                      ELSE IF LoopDone(c, iter + 1) THEN "return"
                                      ELSE "iteration")
                  /\ solved' = IF ~w1.panic /\ LoopDone(c, iter + 1)
                               THEN [solved EXCEPT ![cur].ended = @ + 1]
                               ELSE solved
    /\ UNCHANGED <<alive, parent, ik, added, pc, next, target, pre, tick, edits, warns,
                   atInit>>

\* solve_ik returns
SolveIkDone ==
    /\ pc = "solve_ik" /\ ~panicked /\ SolveReturned /\ next \notin Chains
    /\ pc' = NextSystem("solve_ik")
    /\ last' = NoLast
    /\ UNCHANGED <<sceneVars, ik, added, solveVars, panicked, tick, edits, warns,
                   solved, atInit>>

\* debug_ik: reads the constraints and the transforms, draws gizmos
DebugIk ==
    /\ pc = "debug_ik" /\ ~panicked
    /\ pc' = NextSystem("debug_ik")
    /\ last' = NoLast
    /\ UNCHANGED <<sceneVars, ik, added, solveVars, panicked, tick, edits, warns,
                   solved, atInit>>

Next ==
    \/ \E k \in Editable, t \in EditTargets : SetTarget(k, TargetPos(t))
    \/ \E k \in Editable : SetTarget(k, TargetEntity(Follow))
    \/ \E k \in Editable : RemoveTarget(k)
    \/ SpawnFollow
    \/ DespawnFollow
    \/ \E e \in Despawnable : DespawnJoint(e)
    \/ \E p \in FollowMoves : MoveFollow(p)
    \/ Propagate
    \/ MapNewIk
    \/ SolveNext
    \/ SolveIter
    \/ SolveIkDone
    \/ DebugIk

Spec == Init /\ [][Next]_vars

\* ---------------------------------------------------------------------
\* Properties
\* ---------------------------------------------------------------------
\* tolerances of the fixed-point arithmetic: 0.02 length units, 0.01 of a
\* unit vector's component
LengthTol == PosScale \div 50
AngleTol == DirScale \div 100

Abs(x) == IF x < 0 THEN 0 - x ELSE x
Near(a, b, tol) == a # NaNLen /\ b # NaNLen /\ Abs(a - b) <= tol
VNear(a, b, tol) == ~a.nan /\ ~b.nan /\ Abs(a.x - b.x) <= tol /\ Abs(a.y - b.y) <= tol

Joint(k, j) == ik[k].chain[j]
Anchor(k) == ik[k].chain[1]
Effector(k) == ik[k].chain[Len(ik[k].chain)]
Pos(e) == GTranslation(gtr[e])

\* map_new_ik stored the rest pose of every joint and bone of chain k
Initialized(k) ==
    LET c == ik[k]
    IN /\ Len(c.chain) >= 2
       /\ \A j \in 1..Len(c.chain) :
            /\ Has(c.rest_data, c.chain[j])
            /\ Has(c.joint_data, c.chain[j])
            /\ j > 1 => /\ Has(c.bone_data, <<c.chain[j - 1], c.chain[j]>>)
                        /\ Has(c.bone_data, <<c.chain[j], c.chain[j - 1]>>)

\* the last step was the return of solve for chain k
Returned(k) == last.chain = k /\ last.what \in {"break", "return"}
\* the last step ran a whole solve_iteration for chain k
Iterated(k) == last.chain = k /\ last.what \in {"iteration", "return"}

\* the last step belongs to an invocation of solve for chain k, of which pre
\* holds the transforms at its start
InSolve(k) == last.chain = k /\ last.what \notin {"none", "unresolved"}

\* every bone of chain k has its stored length in the pose g
LengthsKept(k, g) ==
    \A j \in 1..(Len(ik[k].chain) - 1) :
        Near(Distance(GTranslation(g[Joint(k, j)]), GTranslation(g[Joint(k, j + 1)])),
             ik[k].bone_data[<<Joint(k, j), Joint(k, j + 1)>>], LengthTol)

\* C1: after a solve that ran at least one iteration on an initialized chain,
\* every adjacent pair of joints is at the stored bone length, whatever the
\* target
LengthInvariant ==
    \A k \in Chains :
        (Returned(k) /\ iter >= 1 /\ Initialized(k)) => LengthsKept(k, gtr)

\* the direction the forward pass starts from (lines 272-286)
AnchorDir(k) ==
    IF HasParent(Anchor(k))
    THEN Rotate(ik[k].joint_data[Anchor(k)], GRotation(gtr[parent[Anchor(k)]]))
    ELSE ik[k].joint_data[Anchor(k)]

\* direction of the segment that ends in joint j of chain k
PrevDir(k, j) ==
    IF j = 1 THEN AnchorDir(k)
    ELSE Normalize(VSub(Pos(Joint(k, j)), Pos(Joint(k, j - 1))))

\* the direction a joint faces by the convention of set_rotation: the rest
\* angle turned by the rotation away from the rest rotation
Facing(k, e) ==
    Rotate(ik[k].joint_data[e], AngleSub(GRotation(gtr[e]), ik[k].rest_data[e]))

\* resolved direction of joint j: its outgoing bone, the facing direction
\* for the effector
ResolvedDir(k, j) ==
    IF j < Len(ik[k].chain)
    THEN Normalize(VSub(Pos(Joint(k, j + 1)), Pos(Joint(k, j))))
    ELSE Facing(k, Joint(k, j))

WithinLimits(a, lim) ==
    /\ ~a.nan
    /\ ~AngleGt(a, lim.ccw) \/ VNear(a, DegVec(lim.ccw), AngleTol)
    /\ ~AngleLt(a, 0 - lim.cw) \/ VNear(a, DegVec(0 - lim.cw), AngleTol)

\* C2: after a solve that ran at least one iteration, every constrained joint
\* (the effector included) turns from the previous segment's direction by an
\* angle within [-cw, ccw]
AngleInvariant ==
    \A k \in Chains :
        (Returned(k) /\ iter >= 1 /\ Initialized(k)) =>
            \A j \in 1..Len(ik[k].chain) :
                Has(ik[k].joint_constraints, Joint(k, j)) =>
                    WithinLimits(AngleTo(PrevDir(k, j), ResolvedDir(k, j)),
                                 ik[k].joint_constraints[Joint(k, j)])

\* C3: with a parentless anchor, the anchor's world position after every
\* solve iteration and after solve is the one it had before solve
AnchorPinning ==
    \A k \in Chains :
        (last.chain = k /\ last.what \in {"iteration", "return", "break"}
            /\ parent[Anchor(k)] = NoEntity) =>
            /\ ~Pos(Anchor(k)).nan
            /\ Pos(Anchor(k)) = GTranslation(pre[Anchor(k)])
            /\ gtr[Anchor(k)].z = pre[Anchor(k)].z

\* a solve ran iterations that moved the effector and left the anchor's
\* position alone
AnchorPinningWitness ==
    \E k \in Chains :
        /\ Returned(k) /\ iter >= 2
        /\ parent[Anchor(k)] = NoEntity
        /\ Pos(Effector(k)) # GTranslation(pre[Effector(k)])
        /\ Pos(Anchor(k)) = GTranslation(pre[Anchor(k)])

\* C4: the step of solve_ik that handles a chain whose target is
\* IKTarget::None changes no transform and does not enter solve, in every tick
NoTargetNoOp ==
    [][\A k \in Chains :
          (pc = "solve_ik" /\ cur = 0 /\ next = k /\ ik[k].target.kind = "None") =>
              /\ gtr' = gtr
              /\ tr' = tr
              /\ cur' = 0]_vars

\* an initialized chain without target was passed over in the second tick
NoTargetNoOpWitness ==
    \E k \in Chains :
        /\ tick = 2
        /\ last = Did(k, "none")
        /\ Initialized(k)
        /\ ik[k].target.kind = "None"

\* a chain of three joints, all in the scene, with two bones of length 10,
\* unconstrained, with the default iterations and epsilon, holding its bone
\* lengths when solve began
TwoBoneChain(k) ==
    LET c == ik[k]
    IN /\ Len(c.chain) = 3
       /\ Initialized(k)
       /\ c.bone_data[<<c.chain[1], c.chain[2]>>] = 10 * PosScale
       /\ c.bone_data[<<c.chain[2], c.chain[3]>>] = 10 * PosScale
       /\ DOMAIN c.joint_constraints = {}
       /\ c.iterations = DefaultIterations
       /\ c.epsilon = DefaultEpsilon
       /\ \A j \in 1..3 : alive[c.chain[j]]
       /\ LengthsKept(k, pre)

\* the target of the current solve is at distance d from the anchor
TargetAt(k, d) ==
    /\ ~GTranslation(pre[Anchor(k)]).nan
    /\ DistanceSquared(target, GTranslation(pre[Anchor(k)])) = d * d

TargetWithin(k, d) ==
    /\ ~GTranslation(pre[Anchor(k)]).nan
    /\ DistanceSquared(target, GTranslation(pre[Anchor(k)])) <= d * d

\* C5: a chain with two bones of length 10 and a target within distance 20
\* of the anchor ends one solve with the effector closer than epsilon to
\* the target
Convergence ==
    \A k \in Chains :
        (Returned(k) /\ TwoBoneChain(k) /\ TargetWithin(k, 20 * PosScale)) =>
            /\ ~Pos(Effector(k)).nan
            /\ DistanceSquared(Pos(Effector(k)), target) < ik[k].epsilon * ik[k].epsilon

\* the point at distance d from the anchor on the ray towards the target
OnRay(k, d) ==
    VAdd(Pos(Anchor(k)), Scale(Normalize(VSub(target, Pos(Anchor(k)))), d))

\* C6: with the target at distance 25 the early exit never fires, no step
\* panics or yields NaN, and solve returns after all iterations with the
\* joints on the ray from the anchor to the target, the bones at full length
UnreachableTarget ==
    \A k \in Chains :
        (InSolve(k) /\ TwoBoneChain(k) /\ TargetAt(k, 25 * PosScale)) =>
            /\ last.what \in {"begin", "iteration", "return"}
            /\ ~panicked
            /\ (\A j \in 1..3 : ~Pos(Joint(k, j)).nan)
            /\ last.what = "return" =>
                /\ iter = ik[k].iterations
                /\ VNear(Pos(Joint(k, 2)), OnRay(k, 10 * PosScale), LengthTol)
                /\ VNear(Pos(Joint(k, 3)), OnRay(k, 20 * PosScale), LengthTol)
                /\ LengthsKept(k, gtr)

\* solve returned for a target at distance 25 that lies off the chain's line
UnreachableTargetWitness ==
    \E k \in Chains :
        /\ last = Did(k, "return")
        /\ TwoBoneChain(k) /\ TargetAt(k, 25 * PosScale)
        /\ iter = DefaultIterations
        /\ GTranslation(pre[Joint(k, 2)]) = P(10, 0)
        /\ target = P(0, 25)

\* C7: from A (0,0), B (10,0), C (20,0) and target (15,5), one solve leaves C
\* within epsilon of the target, A at (0,0) and both bones at length 10
Scenario ==
    \A k \in Chains :
        (Returned(k)
            /\ Len(ik[k].chain) = 3 /\ Initialized(k)
            /\ DOMAIN ik[k].joint_constraints = {}
            /\ ik[k].iterations >= 1
            /\ (\A j \in 1..3 : GTranslation(pre[Joint(k, j)]) = Straight[j])
            /\ (\A j \in 1..3 : ik[k].joint_data[Joint(k, j)] = Identity)
            /\ target = P(15, 5)) =>
            /\ ~Pos(Joint(k, 3)).nan
            /\ DistanceSquared(Pos(Joint(k, 3)), P(15, 5)) < ik[k].epsilon * ik[k].epsilon
            /\ Pos(Joint(k, 1)) = P(0, 0)
            /\ Near(Distance(Pos(Joint(k, 1)), Pos(Joint(k, 2))), 10 * PosScale, LengthTol)
            /\ Near(Distance(Pos(Joint(k, 2)), Pos(Joint(k, 3))), 10 * PosScale, LengthTol)

\* the scenario was solved and the effector left its rest position
ScenarioWitness ==
    \E k \in Chains :
        /\ Returned(k) /\ iter >= 1
        /\ (\A j \in 1..3 : GTranslation(pre[Joint(k, j)]) = Straight[j])
        /\ target = P(15, 5)
        /\ Pos(Joint(k, 3)) # P(20, 0)
        /\ DOMAIN ik[k].joint_constraints = {}

\* C8: solve runs at most `iterations` iterations; transforms change during
\* solve_ik only in a counted iteration of the one loop; a chain is entered
\* once, at its turn; with iterations = 0 nothing runs and nothing changes
BoundedWork ==
    /\ [](\A k \in Chains :
            (cur = k \/ (last.chain = k /\ last.what \in {"iteration", "return", "break"}))
                => iter <= ik[k].iterations)
    /\ [][/\ (pc = "solve_ik" /\ (gtr' # gtr \/ tr' # tr)) =>
                (cur # 0 /\ iter' = iter + 1 /\ iter < ik[cur].iterations)
          /\ (cur' # 0 /\ cur' # cur) =>
                (cur = 0 /\ cur' = next /\ next' = next + 1 /\ iter' = 0)
          /\ \A k \in Chains :
                (pc = "solve_ik" /\ cur = 0 /\ next = k /\ ik[k].iterations = 0) =>
                    (gtr' = gtr /\ tr' = tr /\ cur' = 0)]_vars

\* a solve used up its two iterations
BoundedWorkWitness ==
    \E k \in Chains :
        /\ last = Did(k, "return")
        /\ iter = ik[k].iterations
        /\ iter = 2
        /\ gtr # pre

\* C9: a chain that follows an entity without transform is passed over with
\* all transforms unchanged; in a tick in which the entity has a transform,
\* solve is entered with the entity's current world position as the target
FollowTarget ==
    [][\A k \in Chains :
          (pc = "solve_ik" /\ cur = 0 /\ next = k /\ ~panicked
              /\ ik[k].target.kind = "Entity") =>
              IF alive[ik[k].target.entity]
              THEN /\ target' = GTranslation(gtr[ik[k].target.entity])
                   /\ cur' = k \/ panicked' \/ ik[k].iterations = 0
              ELSE /\ gtr' = gtr
                   /\ tr' = tr
                   /\ cur' = 0
                   /\ ~panicked']_vars

\* the followed entity was missing in the first tick and the chain is solved
\* towards it in the second
FollowTargetWitness ==
    \E k \in Chains :
        /\ tick = 2
        /\ warns >= 1
        /\ ik[k].target = TargetEntity(Follow)
        /\ Iterated(k)
        /\ target = Pos(Follow)
        /\ target = FollowStart
        /\ gtr # pre

\* the rest-pose initializer found a joint of chain k without transform
InitFailed(k) ==
    /\ ~added[k]
    /\ \E j \in 1..Len(ik[k].chain) : ~alive[Joint(k, j)]

\* C10: a chain whose initialization failed stores no bone length, rest angle
\* or rest rotation, and the solver neither writes a transform for it nor
\* aborts, in this and every later tick
InertAfterFailedInit ==
    \A k \in Chains :
        InitFailed(k) =>
            /\ DOMAIN ik[k].bone_data = {}
            /\ DOMAIN ik[k].joint_data = {}
            /\ DOMAIN ik[k].rest_data = {}
            /\ ~panicked
            /\ InSolve(k) => (gtr = pre)

\* every joint of chain k has its transforms
JointsAlive(k) == \A j \in 1..Len(ik[k].chain) : alive[Joint(k, j)]

\* the target of chain k resolves to a position
Resolvable(k) ==
    \/ ik[k].target.kind = "Pos"
    \/ ik[k].target.kind = "Entity" /\ alive[ik[k].target.entity]

\* C11: while a joint of an initialized chain is missing, the solver does not
\* panic and a solve entered for the chain writes no transform
JointFailureRecoverable ==
    \A k \in Chains :
        (Initialized(k) /\ ~JointsAlive(k)) =>
            /\ ~panicked
            /\ InSolve(k) => (gtr = pre)

\* C12: the handling of a chain whose initialization failed or whose target
\* does not resolve never panics, and when solve_ik has run, every other chain
\* that was initialized and has a resolvable target was solved in this frame
ErrorIsolation ==
    \A k \in Chains :
        (InitFailed(k) \/ (~added[k] /\ ik[k].target.kind = "Entity" /\ ~Resolvable(k))) =>
            /\ ~(panicked /\ last.chain = k)
            /\ pc = "debug_ik" =>
                 \A k2 \in Chains \ {k} :
                     (atInit.ok[k2] /\ JointsAlive(k2) /\ Resolvable(k2)) =>
                         /\ Initialized(k2)
                         /\ solved[k2] = [begun |-> 1, ended |-> 1]

\* C13: a chain of fewer than two joints makes no system panic and solve is
\* never called for it
ShortChainRejected ==
    \A k \in Chains :
        Len(ik[k].chain) < 2 =>
            /\ ~panicked
            /\ cur # k
            /\ solved[k].begun = 0

\* C14: after every solve iteration on an initialized chain whose joints are
\* all in the scene, every joint position is finite
NoNaNPropagation ==
    \A k \in Chains :
        (Iterated(k) /\ Initialized(k) /\ JointsAlive(k)) =>
            \A j \in 1..Len(ik[k].chain) : ~Pos(Joint(k, j)).nan

\* the stored rest pose of chain k is the one map_new_ik computes from the
\* transforms g (lines 441-474)
RestFrom(k, g) ==
    LET c == ik[k]
    IN \A j \in 1..Len(c.chain) :
          LET e == c.chain[j]
          IN /\ c.rest_data[e] = GRotation(g[e])
             /\ c.joint_data[e] =
                    ToAngle(IF j = 1
                            THEN VSub(GTranslation(g[c.chain[2]]), GTranslation(g[e]))
                            ELSE VSub(GTranslation(g[e]), GTranslation(g[c.chain[j - 1]])))
             /\ j > 1 =>
                    c.bone_data[<<c.chain[j - 1], e>>] =
                        Distance(GTranslation(g[e]), GTranslation(g[c.chain[j - 1]]))

\* map_new_ik found every joint of chain k and ran to its end
InitSucceeded(k) == atInit.ok[k] /\ Len(ik[k].chain) >= 2

\* C15: a chain is handled by map_new_ik in the first frame and has no rest
\* data before; from then on its bone lengths, rest angles and rest rotations
\* are the ones computed from the transforms of that frame, and no later step
\* changes them
InitializedOnce ==
    /\ [](\A k \in Chains :
            /\ added[k] <=> (tick = 0 \/ (tick = 1 /\ pc = "map_new_ik"))
            /\ added[k] => /\ DOMAIN ik[k].bone_data = {}
                           /\ DOMAIN ik[k].joint_data = {}
                           /\ DOMAIN ik[k].rest_data = {}
            /\ InitSucceeded(k) => (Initialized(k) /\ RestFrom(k, atInit.g)))
    /\ [][\A k \in Chains :
            ~added[k] => /\ ik'[k].bone_data = ik[k].bone_data
                         /\ ik'[k].joint_data = ik[k].joint_data
                         /\ ik'[k].rest_data = ik[k].rest_data]_vars

\* the second frame is over, the joints have left the pose of the first
\* frame, and the rest data are still those of the first frame
InitializedOnceWitness ==
    \E k \in Chains :
        /\ tick = 2 /\ pc = "debug_ik"
        /\ InitSucceeded(k)
        /\ solved[k].ended = 1
        /\ RestFrom(k, atInit.g)
        /\ ~RestFrom(k, gtr)

\* the joints' GlobalTransforms are those propagated from the Transforms
PropagatedScene ==
    \A e \in Entities : gtr[e] = Propagated(alive, parent, tr, gtr, e)

\* C17: the systems of a frame run in the order propagation, map_new_ik,
\* solve_ik, debug_ik; rest data are written by map_new_ik only and transforms
\* by solve_ik only after it; a chain that has a target in its first frame is
\* initialized, from the pose before any iteration, when its first solve begins
TickOrdering ==
    /\ [](\A k \in Chains :
            /\ cur = k => (pc = "solve_ik" /\ ~added[k])
            /\ (InSolve(k) /\ tick = 1 /\ InitSucceeded(k)) =>
                    (Initialized(k) /\ RestFrom(k, pre))
            /\ (pc = "map_new_ik" \/ (last = Did(k, "begin") /\ tick = 1 /\ k = 1)) =>
                    PropagatedScene)
    /\ [][/\ pc' # pc =>
                \/ pc = "update" /\ pc' = "map_new_ik"
                \/ pc = "map_new_ik" /\ pc' = "solve_ik"
                \/ pc = "solve_ik" /\ pc' = "debug_ik"
                \/ pc = "debug_ik" /\ pc' = "update"
          /\ (\E k \in Chains : ik'[k].rest_data # ik[k].rest_data) =>
                (pc = "map_new_ik" /\ tr' = tr /\ gtr' = gtr)
          /\ (pc # "update" /\ (tr' # tr \/ gtr' # gtr)) => pc = "solve_ik"]_vars

\* the first iteration of the first frame has run on a chain attached with
\* a target: the rest data are those of the pose before it, not of the pose
\* after it
TickOrderingWitness ==
    \E k \in Chains :
        /\ tick = 1
        /\ last = Did(k, "iteration") /\ iter = 1
        /\ ik[k].target.kind = "Pos"
        /\ InitSucceeded(k)
        /\ RestFrom(k, pre)
        /\ ~RestFrom(k, gtr)

\* C18: remove_target is set_target(IKTarget::None); the stored target changes
\* only when the application stores one, and then no other field of the chain
\* changes; when solve_ik reaches a chain it skips it if the stored target is
\* None and enters solve with the stored position if it is a position
TargetLifecycle ==
    /\ [](\A k \in Chains : remove_target(ik[k]) = set_target(ik[k], TargetNone))
    /\ [][\A k \in Chains :
            /\ ik'[k].target # ik[k].target =>
                  /\ pc = "update"
                  /\ ik'[k] = [ik[k] EXCEPT !.target = ik'[k].target]
                  /\ tr' = tr /\ gtr' = gtr
            /\ (pc = "solve_ik" /\ cur = 0 /\ next = k /\ ~panicked) =>
                  /\ ik[k].target.kind = "None" =>
                        (cur' = 0 /\ solved' = solved /\ tr' = tr /\ gtr' = gtr)
                  /\ ik[k].target.kind = "Pos" =>
                        /\ target' = ik[k].target.pos
                        /\ solved'[k].begun = solved[k].begun + 1]_vars

\* the first frame brought the effector to the target (15, 5); the
\* application then stored another target, and the second frame solves
\* towards it
TargetLifecycleWitness ==
    \E k \in Chains :
        /\ tick = 2 /\ edits = 1
        /\ Iterated(k)
        /\ InitSucceeded(k)
        /\ DistanceSquared(GTranslation(pre[Effector(k)]), P(15, 5))
              < ik[k].epsilon * ik[k].epsilon
        /\ ik[k].target = TargetPos(P(0 - 6, 8))
        /\ target = P(0 - 6, 8)
        /\ Pos(Effector(k)) # GTranslation(pre[Effector(k)])

\* C20: after a successful initialization both orders of every adjacent pair
\* of joints have a bone entry, of the same length, the distance of the two
\* joints in the transforms map_new_ik read; in every later state
BoneMapSymmetric ==
    \A k \in Chains :
        InitSucceeded(k) =>
            \A j \in 1..(Len(ik[k].chain) - 1) :
                LET a == Joint(k, j)
                    b == Joint(k, j + 1)
                IN /\ Has(ik[k].bone_data, <<a, b>>)
                   /\ Has(ik[k].bone_data, <<b, a>>)
                   /\ ik[k].bone_data[<<a, b>>] = ik[k].bone_data[<<b, a>>]
                   /\ ik[k].bone_data[<<a, b>>] =
                         Distance(GTranslation(atInit.g[a]), GTranslation(atInit.g[b]))

\* a solve begins in the second frame, the joints no longer where they were
\* initialized, with both entries of both bones at the initial length 10
BoneMapSymmetricWitness ==
    \E k \in Chains :
        /\ tick = 2
        /\ last = Did(k, "begin")
        /\ InitSucceeded(k)
        /\ Len(ik[k].chain) = 3
        /\ \A j \in 1..2 :
              /\ ik[k].bone_data[<<Joint(k, j), Joint(k, j + 1)>>] = 10 * PosScale
              /\ ik[k].bone_data[<<Joint(k, j + 1), Joint(k, j)>>] = 10 * PosScale
        /\ Pos(Joint(k, 2)) # GTranslation(atInit.g[Joint(k, 2)])

\* C16: a chain is in solve only while solve_ik runs; when solve_ik has run,
\* or a system has panicked, every initialized chain with a resolvable target
\* has begun and ended exactly one solve in this frame, and a chain without
\* target none
ChainStateMachine ==
    \A k \in Chains :
        /\ cur = k => pc = "solve_ik"
        /\ solved[k].ended <= solved[k].begun /\ solved[k].begun <= 1
        /\ (Initialized(k) /\ Resolvable(k) /\ (pc = "debug_ik" \/ panicked)) =>
              solved[k] = [begun |-> 1, ended |-> 1]
        /\ (ik[k].target.kind = "None" /\ pc = "debug_ik") =>
              solved[k] = [begun |-> 0, ended |-> 0]

\* the Transform t and the GlobalTransform g have no NaN component
FiniteTransform(t) == ~t.pos.nan /\ ~t.rot.nan /\ t.scale # NaNLen
FiniteGlobal(g) == ~g.pos.nan /\ ~g.m.nan

\* the local transform of e is its world transform reparented to its parent's
LocalMatchesWorld(e) ==
    /\ FiniteTransform(tr[e])
    /\ FiniteGlobal(gtr[e])
    /\ FiniteGlobal(gtr[parent[e]])
    /\ tr[e] = ReparentedTo(gtr[e], gtr[parent[e]])

\* C19: when a solve that ran at least one iteration returns, the local
\* transform of every joint with a parent is the inverse of the parent's
\* world transform applied to the joint's world transform
LocalWorldConsistency ==
    \A k \in Chains :
        (Returned(k) /\ iter >= 1 /\ Initialized(k) /\ JointsAlive(k)) =>
            \A j \in 1..Len(ik[k].chain) :
                HasParent(Joint(k, j)) => LocalMatchesWorld(Joint(k, j))

\* C21: at most the chain in solve has begun a solve it has not ended; a
\* solve begins only when every solve begun in the frame has ended, and starts
\* from the transforms as they are then; transforms written while a chain is
\* in solve are written by an iteration of that chain
SequentialChains ==
    /\ [](\A k \in Chains :
            solved[k].begun > solved[k].ended => (cur = k \/ panicked))
    /\ [][/\ (cur # 0 /\ cur' # cur) => cur' = 0
          /\ (cur' # 0 /\ cur' # cur) =>
                /\ cur = 0
                /\ \A k \in Chains : solved[k].begun = solved[k].ended
                /\ gtr' = gtr /\ tr' = tr
                /\ pre' = gtr
          /\ (cur # 0 /\ (gtr' # gtr \/ tr' # tr)) =>
                (last'.chain = cur /\ iter' = iter + 1)]_vars

\* the second chain, whose anchor is the child of the first chain's effector,
\* has run an iteration; its solve began from the transforms of the first
\* chain's finished solve, the effector of the first within epsilon of its
\* target
SequentialChainsWitness ==
    /\ tick = 1
    /\ Iterated(2)
    /\ Len(ik[1].chain) = 3
    /\ parent[Anchor(2)] = Effector(1)
    /\ solved[1] = [begun |-> 1, ended |-> 1]
    /\ ik[1].target.kind = "Pos"
    /\ DistanceSquared(GTranslation(pre[Effector(1)]), ik[1].target.pos)
          < ik[1].epsilon * ik[1].epsilon
    /\ GTranslation(pre[Effector(1)]) # GTranslation(atInit.g[Effector(1)])
    /\ gtr[Effector(1)] = pre[Effector(1)]

\* C22: IKConstraint::new, for the joint list of every chain of the scene,
\* gives iterations 10, epsilon 1.0, target None, that list in its order and
\* four empty maps; a chain built by new alone has these values until
\* map_new_ik runs
ConstructionDefaults ==
    \A k \in Chains :
        /\ LET c == New(ik[k].chain)
           IN /\ c.target.kind = "None"
              /\ c.chain = ik[k].chain
              /\ c.iterations = 10
              /\ c.epsilon = 1 * PosScale
              /\ DOMAIN c.bone_data = {}
              /\ DOMAIN c.joint_data = {}
              /\ DOMAIN c.rest_data = {}
              /\ DOMAIN c.joint_constraints = {}
        /\ (added[k] /\ ik[k].chain = SecondChain) =>
              /\ ik[k].iterations = 10
              /\ ik[k].epsilon = 1 * PosScale
              /\ DOMAIN ik[k].bone_data = {}
              /\ DOMAIN ik[k].joint_data = {}
              /\ DOMAIN ik[k].rest_data = {}
              /\ DOMAIN ik[k].joint_constraints = {}

\* before the first frame the second chain is as new returned it
ConstructionDefaultsWitness ==
    \E k \in Chains :
        /\ tick = 0 /\ added[k]
        /\ ik[k].chain = <<6, 7>>
        /\ ik[k] = New(<<6, 7>>)
        /\ ik[k].iterations = 10
        /\ ik[k].target.kind = "None"

\* C23: when a solve starts with the effector at a squared distance from the
\* resolved target strictly below epsilon squared, it returns with no iteration
\* run and no transform changed; at a squared distance of epsilon squared or
\* more an iteration is run
EarlyExitNoOp ==
    [][\A k \in Chains :
         (pc = "solve_ik" /\ ~panicked /\ cur = k /\ iter = 0
          /\ alive[Effector(k)] /\ ~target.nan
          /\ ~GTranslation(gtr[Effector(k)]).nan) =>
            LET eff_pos == GTranslation(gtr[Effector(k)])
                d2 == (eff_pos.x - target.x) * (eff_pos.x - target.x)
                      + (eff_pos.y - target.y) * (eff_pos.y - target.y)
                e2 == ik[k].epsilon * ik[k].epsilon
            IN /\ d2 < e2 => /\ gtr' = gtr /\ tr' = tr
                              /\ iter' = 0 /\ cur' = 0
                              /\ solved'[k].ended = solved[k].ended + 1
               /\ d2 >= e2 => iter' = 1]_vars

\* a solve returned at its first test, half of epsilon from the target, with
\* the middle joint bent by 90 degrees under a limit of 45
EarlyExitNoOpWitness ==
    /\ last = Did(1, "break") /\ iter = 0 /\ tick = 1
    /\ gtr = pre
    /\ Len(ik[1].chain) = 3
    /\ Has(ik[1].joint_constraints, 2)
    /\ ik[1].joint_constraints[2].ccw = 45
    /\ GTranslation(gtr[1]) = P(0, 0)
    /\ GTranslation(gtr[2]) = P(10, 0)
    /\ GTranslation(gtr[3]) = P(10, 10)
    /\ target = Vec(10 * PosScale, 10 * PosScale + DefaultEpsilon \div 2)

\* C24: after a successful initialization the anchor's rest angle is the
\* angle of the direction from the anchor to chain[1], the rest angle of every
\* later joint is the angle of the direction from its predecessor to itself,
\* and the anchor and chain[1] have the same rest angle
RestAngleCapture ==
    \A k \in Chains :
        InitSucceeded(k) =>
            LET c == ik[k]
                pos(j) == GTranslation(atInit.g[c.chain[j]])
            IN /\ c.joint_data[c.chain[1]] = ToAngle(VSub(pos(2), pos(1)))
               /\ \A j \in 2..Len(c.chain) :
                     c.joint_data[c.chain[j]] = ToAngle(VSub(pos(j), pos(j - 1)))
               /\ c.joint_data[c.chain[1]] = c.joint_data[c.chain[2]]

\* a chain initialized in a bent pose: the two bones have different directions
RestAngleCaptureWitness ==
    /\ InitSucceeded(1) /\ tick >= 1
    /\ Len(ik[1].chain) = 3
    /\ GTranslation(atInit.g[1]) = P(0, 0)
    /\ GTranslation(atInit.g[2]) = P(10, 0)
    /\ GTranslation(atInit.g[3]) = P(10, 10)
    /\ ik[1].joint_data[1] = ToAngle(P(10, 0))
    /\ ik[1].joint_data[2] = ToAngle(P(10, 0))
    /\ ik[1].joint_data[3] = ToAngle(P(0, 10))
    /\ ik[1].joint_data[3] # ik[1].joint_data[2]

\* C25: after a successful initialization the rest angle of every joint that
\* has a successor is the angle of the direction from that joint to the next
\* joint of the chain
JointRestOutgoing ==
    \A k \in Chains :
        InitSucceeded(k) =>
            LET c == ik[k]
                pos(j) == GTranslation(atInit.g[c.chain[j]])
            IN \A j \in 1..(Len(c.chain) - 1) :
                  c.joint_data[c.chain[j]] = ToAngle(VSub(pos(j + 1), pos(j)))

\* entity e is a joint of chain k
InChain(k, e) == \E j \in 1..Len(ik[k].chain) : ik[k].chain[j] = e

\* C26: a step of solve_ik leaves the local and the world transform of every
\* entity that is not a joint of the chain in solve as they are
SolveWritesOnlyChain ==
    [][pc = "solve_ik" =>
          \A e \in Entities :
              (cur = 0 \/ ~InChain(cur, e)) => (gtr'[e] = gtr[e] /\ tr'[e] = tr[e])]_vars

\* an iteration moved joints of a chain whose anchor has a parent outside the
\* chain while a second chain is in the scene
SolveWritesOnlyChainWitness ==
    /\ Iterated(1) /\ tick = 1
    /\ Len(ik[1].chain) = 3
    /\ parent[Anchor(1)] = AnchorParent /\ alive[AnchorParent]
    /\ ~InChain(1, AnchorParent)
    /\ \E j \in 1..3 : gtr[ik[1].chain[j]] # pre[ik[1].chain[j]]
    /\ \A e \in Entities : ~InChain(1, e) => gtr[e] = pre[e]

\* C27: no step of solve_ik changes a constraint; a constraint changes only in
\* map_new_ik, for a chain that was just added and in its maps of rest data
\* only, or between frames by the application, in its target only
SolveKeepsModel ==
    [][/\ pc = "solve_ik" => ik' = ik
       /\ \A k \in Chains :
             ik'[k] # ik[k] =>
                \/ /\ pc = "update"
                   /\ ik'[k] = [ik[k] EXCEPT !.target = ik'[k].target]
                \/ /\ pc = "map_new_ik" /\ added[k]
                   /\ ik'[k].chain = ik[k].chain
                   /\ ik'[k].joint_constraints = ik[k].joint_constraints
                   /\ ik'[k].target = ik[k].target
                   /\ ik'[k].iterations = ik[k].iterations
                   /\ ik'[k].epsilon = ik[k].epsilon]_vars

\* in the second frame, after a change of target, an iteration has moved the
\* effector and the rest data is still that of the initialization
SolveKeepsModelWitness ==
    /\ tick = 2 /\ Iterated(1) /\ edits >= 1
    /\ InitSucceeded(1) /\ Len(ik[1].chain) = 3
    /\ RestFrom(1, atInit.g)
    /\ gtr[Effector(1)] # pre[Effector(1)]
    /\ gtr[Effector(1)] # atInit.g[Effector(1)]
    /\ ik[1].target.kind = "Pos"

\* arguments the setters are tried with
SetterPositions == {P(5, 5), P(12, 0 - 3)}
SetterRotations == {ToAngle(P(10, 0)), ToAngle(P(0 - 5, 5))}

\* neither of the two joints is the parent of the other
Unrelated(a, b) == a # b /\ parent[a] # b /\ parent[b] # a

\* rounding allowed on a value recomputed from a matrix it was stored in
RoundTol == AngleTol \div 50

\* the same vector, up to rounding
VSame(a, b) == (a.nan /\ b.nan) \/ VNear(a, b, RoundTol)

\* the same transforms for every entity: positions and z equal, rotations and
\* scales equal up to rounding
SameWorld(w1, w2) ==
    /\ w1.panic = w2.panic
    /\ \A e \in Entities :
          /\ w1.gtr[e].pos = w2.gtr[e].pos
          /\ w1.gtr[e].z = w2.gtr[e].z
          /\ VSame(w1.gtr[e].m, w2.gtr[e].m)
          /\ VSame(w1.tr[e].pos, w2.tr[e].pos)
          /\ w1.tr[e].z = w2.tr[e].z
          /\ VSame(w1.tr[e].rot, w2.tr[e].rot)
          /\ \/ w1.tr[e].scale = w2.tr[e].scale
             \/ Near(w1.tr[e].scale, w2.tr[e].scale, 1)

\* C28: with a chain in solve, set_position or set_rotation called twice on a
\* joint with the same argument leaves the transforms that one call leaves, and
\* two setter calls on two joints of which neither is the parent of the other
\* leave the same transforms in either order (rotations and scales up to
\* rounding for a joint with a parent, everything exactly for a parentless one)
SetterIdempotence ==
    (pc = "solve_ik" /\ cur # 0 /\ ~panicked) =>
        LET c == ik[cur]
            w == World(gtr, tr)
            js == {c.chain[j] : j \in 1..Len(c.chain)}
            Same(a, w1, w2) == IF HasParent(a) THEN SameWorld(w1, w2) ELSE w1 = w2
        IN /\ \A a \in js :
                /\ \A p \in SetterPositions :
                      Same(a, SetPosition(SetPosition(w, a, p), a, p), SetPosition(w, a, p))
                /\ \A r \in SetterRotations :
                      Same(a, SetRotation(SetRotation(w, c, a, r), c, a, r),
                           SetRotation(w, c, a, r))
           /\ \A a, b \in js :
                Unrelated(a, b) =>
                   \A p \in SetterPositions, r \in SetterRotations :
                      /\ \A q \in SetterPositions :
                            SetPosition(SetPosition(w, a, p), b, q)
                              = SetPosition(SetPosition(w, b, q), a, p)
                      /\ SetRotation(SetPosition(w, a, p), c, b, r)
                           = SetPosition(SetRotation(w, c, b, r), a, p)
                      /\ \A r2 \in SetterRotations :
                            SetRotation(SetRotation(w, c, a, r), c, b, r2)
                              = SetRotation(SetRotation(w, c, b, r2), c, a, r)

\* a chain of three joints, each the child of the one before, is in solve
\* after an iteration: the setters move and turn the effector, a second call
\* changes nothing more, and the calls on the anchor and on the effector
\* commute
SetterIdempotenceWitness ==
    /\ pc = "solve_ik" /\ cur = 1 /\ ~panicked /\ iter >= 1
    /\ Len(ik[1].chain) = 3
    /\ parent[3] = 2 /\ parent[2] = 1 /\ Unrelated(1, 3)
    /\ LET w == World(gtr, tr)
           p == P(5, 5)
           r == ToAngle(P(0 - 5, 5))
       IN /\ SetPosition(w, 3, p).gtr[3] # gtr[3]
          /\ SetPosition(w, 3, p).tr[3] # tr[3]
          /\ SetRotation(w, ik[1], 3, r).gtr[3] # gtr[3]
          /\ SameWorld(SetPosition(SetPosition(w, 3, p), 3, p), SetPosition(w, 3, p))
          /\ SameWorld(SetRotation(SetRotation(w, ik[1], 3, r), ik[1], 3, r),
                       SetRotation(w, ik[1], 3, r))
          /\ SetPosition(SetRotation(w, ik[1], 3, r), 1, p)
               = SetRotation(SetPosition(w, 1, p), ik[1], 3, r)

\* the world of chain k's next iteration when it comes to the effector
\* rotation of lines 308-323: after the target seek and the backward pass
BeforeEffectorRotation(k) ==
    BackwardPass(SeekTarget(World(gtr, tr), Effector(k), target), ik[k], Len(ik[k].chain))

\* C29: with a chain in solve whose effector has its transforms, the effector
\* is at the target when the iteration comes to the effector rotation, the
\* direction to the target is NaN, and the rotation set is the one of the
\* direction from the predecessor to the effector
EffectorRotationFallback ==
    \A k \in Chains :
        (pc = "solve_ik" /\ cur = k /\ ~panicked /\ Len(ik[k].chain) >= 2
         /\ alive[Effector(k)] /\ ~target.nan) =>
            LET c == ik[k]
                n == Len(c.chain)
                w2 == BeforeEffectorRotation(k)
                eff_pos == GTranslation(w2.gtr[Effector(k)])
                prev_pos == GTranslation(w2.gtr[c.chain[n - 1]])
            IN ~w2.panic =>
                  /\ eff_pos = target
                  /\ Normalize(VSub(target, eff_pos)).nan
                  /\ EffectorRotation(w2, c, target)
                       = SetRotation(w2, c, Effector(k),
                                     ToAngle(Normalize(VSub(eff_pos, prev_pos))))

\* after an iteration of a chain with a parentless effector the effector is
\* still away from the target, so that another iteration runs: in it the
\* effector is at the target after the backward pass and the predecessor is
\* not
EffectorRotationFallbackWitness ==
    /\ pc = "solve_ik" /\ cur = 1 /\ ~panicked /\ iter >= 1
    /\ Len(ik[1].chain) = 3 /\ ~HasParent(3)
    /\ ~WithinEpsilon(World(gtr, tr), ik[1], target)
    /\ GTranslation(gtr[3]) # target
    /\ LET w2 == BeforeEffectorRotation(1)
       IN /\ ~w2.panic
          /\ GTranslation(w2.gtr[3]) = target
          /\ ~Normalize(VSub(target, GTranslation(w2.gtr[2]))).nan
          /\ EffectorRotation(w2, ik[1], target).gtr[3] # w2.gtr[3]

\* joint a and its parent, if it has one, have finite transforms
SettableJoint(a) ==
    /\ alive[a] /\ FiniteGlobal(gtr[a]) /\ FiniteTransform(tr[a])
    /\ HasParent(a) => (alive[parent[a]] /\ FiniteGlobal(gtr[parent[a]]))

====
